---- MODULE Spec2Model ----
(***************************************************************************)
(* HeartHouse service worker (src/sw.js): the install / activate / fetch   *)
(* listeners and cachedAppShell, as a state machine over the Cache Storage *)
(* partitions and the fetch events in flight.  Every `await` of the source *)
(* is a suspension point and therefore the boundary of an action.          *)
(*                                                                         *)
(* The platform is modelled as follows.  Network operations (fetch, the    *)
(* navigation preload, cache.addAll) and Cache Storage writes (cache.put,  *)
(* caches.delete) and navigationPreload.enable() may fulfil or reject.     *)
(* Cache Storage reads (caches.open, caches.keys, cache.match) fulfil.     *)
(* cache.addAll stores every resource or none.  Fetch events are           *)
(* dispatched once the promise given to the activate event's waitUntil     *)
(* has settled.  Cache keys are pathnames relative to the worker's origin; *)
(* no stored key carries a query string.                                   *)
(*                                                                         *)
(* Definitions named ...Mutant, RouteBackendFirst, RouteAnyMethod and      *)
(* ShellOrOfflineAlways are faulty variants of the definition that         *)
(* follows them; no specification uses them.                               *)
(***************************************************************************)
EXTENDS Integers, Sequences, FiniteSets, TLC

(* ------------------------------ bounds -------------------------------- *)
\* fetch events dispatched to the worker in one behaviour of Spec
MaxRequests == 1
\* fetch events dispatched in one behaviour of SpecConcurrent
MaxConcurrent == 2

(* ----------------------- configuration (sw.js:5-19) ------------------- *)
SW_VERSION == "v2"
PRECACHE == "hearthouse-precache-" \o SW_VERSION
RUNTIME == "hearthouse-runtime-" \o SW_VERSION
PRECACHE_URLS == {"/", "/index.html", "/manifest.json", "/icon-192.png", "/icon-512.png"}

\* partitions a previous version of the worker left behind
StaleNames == {"hearthouse-precache-v1", "hearthouse-runtime-v1"}
CacheNames == {PRECACHE, RUNTIME} \cup StaleNames

(* ------------------------- hostnames and origins ---------------------- *)
\* hostnames are character sequences, so that String.includes is a search
HostApp == <<"h", "h", ".", "a", "p", "p">>
HostBackend == <<"x", ".", "s", "u", "p", "a", "b", "a", "s", "e", ".", "c", "o">>
BackendPattern == <<"s", "u", "p", "a", "b", "a", "s", "e", ".", "c", "o">>

OriginApp == [scheme |-> "https", hostname |-> HostApp]
OriginBackend == [scheme |-> "https", hostname |-> HostBackend]
OriginBackendHttp == [scheme |-> "http", hostname |-> HostBackend]

\* where the worker may be served from, and where requests may go
WorkerOrigins == {OriginApp, OriginBackend}
RequestOrigins == {OriginApp, OriginBackend, OriginBackendHttp}
Pathnames == {"/index.html", "/app.js"}
Modes == {"navigate", "cors"}
Methods == {"GET", "DELETE"}

Requests ==
    [origin : RequestOrigins, pathname : Pathnames, mode : Modes, method : Methods]

\* String.prototype.includes (sw.js:70); the variant is startsWith
includesMutant(s, pat) == Len(s) >= Len(pat) /\ SubSeq(s, 1, Len(pat)) = pat

includes(s, pat) ==
    \E i \in 0..(Len(s) - Len(pat)) : SubSeq(s, i + 1, i + Len(pat)) = pat

(* ------------------------------ responses ----------------------------- *)
Undefined == [kind |-> "undefined"]
Pending == [kind |-> "pending"]
Rejected == [kind |-> "rejected"]
NetworkError == [kind |-> "networkerror"]

IsResponse(v) == v.kind = "response"

\* a response the network produced for `url`; body is the server's content
\* counter at the time the response was produced
NetResponse(url, status, type, body) ==
    [kind |-> "response", status |-> status, type |-> type, url |-> url,
     body |-> <<"net", body>>, headers |-> {}]

\* JSON.stringify({ error: msg }) (sw.js:73-75)
JSONstringifyError(msg) == "{\"error\":\"" \o msg \o "\"}"

OfflineMessage == "Offline - changes will sync when connection is restored"

\* new Response(JSON.stringify({error: ...}), {headers: {...}}) (sw.js:73-75)
OfflineStub ==
    [kind |-> "response", status |-> 200, type |-> "default", url |-> "",
     body |-> <<"text", JSONstringifyError(OfflineMessage)>>,
     headers |-> {<<"Content-Type", "application/json">>}]

\* new Response('Offline', { status: 503 }) (sw.js:95, 115)
OfflineResponse ==
    [kind |-> "response", status |-> 503, type |-> "default", url |-> "",
     body |-> <<"text", "Offline">>,
     headers |-> {<<"Content-Type", "text/plain;charset=UTF-8">>}]

\* outcomes of one network fetch: (status, type) of a response
NetOutcomes == {<<200, "basic">>, <<404, "basic">>, <<0, "opaqueredirect">>}

(* -------------------------------- state ------------------------------- *)
VARIABLES
    location,          \* self.location.origin
    preloadSupported,  \* 'navigationPreload' in self.registration
    listing,           \* caches.keys(): the partitions that exist
    store,             \* store[name][pathname]: stored snapshot, or Undefined
    installPc,         \* position of the install listener's promise chain
    skipWaiting,       \* self.skipWaiting() was called
    logged,            \* console.log('[SW] precache failed:') was called
    activatePc,        \* position of the activate listener's async function
    names,             \* const names = await caches.keys()
    pendingDeletes,    \* caches.delete(n) started and not settled
    failedDeletes,     \* caches.delete(n) rejected
    preloadEnabled,    \* navigationPreload.enable() fulfilled
    claimed,           \* self.clients.claim() fulfilled
    tasks,             \* one record per fetch event dispatched
    clock,             \* the network's content counter
    unhandled          \* promise rejections nothing handles

vars ==
    <<location, preloadSupported, listing, store, installPc, skipWaiting, logged,
      activatePc, names, pendingDeletes, failedDeletes, preloadEnabled, claimed, tasks,
      clock, unhandled>>

\* keys with a query string, which only ignoreSearch lookups can match
SearchKeys == {"/index.html?v=2", "/?source=pwa"}

\* the pathname of a key: the key without its query string
StripSearch(key) ==
    CASE key = "/index.html?v=2" -> "/index.html"
      [] key = "/?source=pwa" -> "/"
      [] OTHER -> key

AllPaths == PRECACHE_URLS \cup Pathnames \cup SearchKeys

EmptyCache == [p \in AllPaths |-> Undefined]

\* partitions that may exist when this version of the worker is installed:
\* what the previous version left (its Runtime is opened after its Precache)
InitialListings ==
    {{}, {"hearthouse-precache-v1"}, {"hearthouse-precache-v1", "hearthouse-runtime-v1"}}

Init ==
    /\ location \in WorkerOrigins
    /\ preloadSupported \in BOOLEAN
    /\ listing \in InitialListings
    /\ store = [n \in CacheNames |-> EmptyCache]
    /\ installPc = "idle"
    /\ skipWaiting = FALSE
    /\ logged = FALSE
    /\ activatePc = "idle"
    /\ names = {}
    /\ pendingDeletes = {}
    /\ failedDeletes = {}
    /\ preloadEnabled = FALSE
    /\ claimed = FALSE
    /\ tasks = <<>>
    /\ clock = 0
    /\ unhandled = 0

(* ------------------------ install (sw.js:22-29) ----------------------- *)
\* the install event is dispatched: event.waitUntil(caches.open(PRECACHE)...)
InstallEvent ==
    /\ installPc = "idle"
    /\ installPc' = "open"
    /\ UNCHANGED <<location, preloadSupported, names, listing, store, skipWaiting, logged,
                   activatePc, pendingDeletes, failedDeletes, preloadEnabled,
                   claimed, tasks, clock, unhandled>>

\* caches.open(PRECACHE) fulfils: the partition exists from now on
InstallOpen ==
    /\ installPc = "open"
    /\ listing' = listing \cup {PRECACHE}
    /\ installPc' = "addAll"
    /\ UNCHANGED <<location, preloadSupported, names, store, skipWaiting, logged,
                   activatePc, pendingDeletes, failedDeletes, preloadEnabled,
                   claimed, tasks, clock, unhandled>>

\* cache.addAll(PRECACHE_URLS) fulfils (every resource fetched and stored,
\* all or nothing), then self.skipWaiting()
InstallAddAllOk ==
    /\ installPc = "addAll"
    /\ clock' = clock + 1
    /\ store' = [store EXCEPT ![PRECACHE] =
                    [p \in AllPaths |->
                        IF p \in PRECACHE_URLS
                        THEN NetResponse(p, 200, "basic", clock + 1)
                        ELSE store[PRECACHE][p]]]
    /\ skipWaiting' = TRUE
    /\ installPc' = "done"
    /\ UNCHANGED <<location, preloadSupported, names, listing, logged, activatePc,
                   pendingDeletes, failedDeletes, preloadEnabled, claimed, tasks,
                   unhandled>>

\* cache.addAll rejects (a resource is unreachable): nothing is stored,
\* skipWaiting is skipped, .catch logs; the variant has no .catch
InstallAddAllFailMutant ==
    /\ installPc = "addAll"
    /\ installPc' = "rejected"
    /\ UNCHANGED <<location, preloadSupported, names, listing, store, skipWaiting,
                   logged, activatePc, pendingDeletes, failedDeletes,
                   preloadEnabled, claimed, tasks, clock, unhandled>>

InstallAddAllFail ==
    /\ installPc = "addAll"
    /\ logged' = TRUE
    /\ installPc' = "done"
    /\ UNCHANGED <<location, preloadSupported, names, listing, store, skipWaiting,
                   activatePc, pendingDeletes, failedDeletes, preloadEnabled,
                   claimed, tasks, clock, unhandled>>

(* ----------------------- activate (sw.js:32-46) ----------------------- *)
keep == {PRECACHE, RUNTIME}

\* the activate event is dispatched once install has settled:
\* event.waitUntil((async () => { const names = await caches.keys(); ...
ActivateEvent ==
    /\ installPc = "done"
    /\ activatePc = "idle"
    /\ activatePc' = "keys"
    /\ UNCHANGED <<location, preloadSupported, names, listing, store, installPc,
                   skipWaiting, logged, pendingDeletes, failedDeletes,
                   preloadEnabled, claimed, tasks, clock, unhandled>>

\* names a delete is started for: names.map(n => !keep.has(n) && caches.delete(n))
ToDeleteMutant(ns) == {n \in ns : n \notin keep /\ n # "hearthouse-runtime-v1"}

ToDelete(ns) == {n \in ns : n \notin keep}

\* caches.keys() fulfils; every delete is started at once (sw.js:36-37)
ActivateKeys ==
    /\ activatePc = "keys"
    /\ names' = listing
    /\ pendingDeletes' = ToDelete(listing)
    /\ activatePc' = "deletes"
    /\ UNCHANGED <<location, preloadSupported, listing, store, installPc,
                   skipWaiting, logged, failedDeletes, preloadEnabled, claimed,
                   tasks, clock, unhandled>>

\* one caches.delete(n) fulfils: the partition is gone
DeleteOk(n) ==
    /\ n \in pendingDeletes
    /\ pendingDeletes' = pendingDeletes \ {n}
    /\ listing' = listing \ {n}
    /\ store' = [store EXCEPT ![n] = EmptyCache]
    /\ UNCHANGED <<location, preloadSupported, names, installPc, skipWaiting, logged,
                   activatePc, failedDeletes, preloadEnabled, claimed, tasks,
                   clock, unhandled>>

\* one caches.delete(n) rejects: Promise.all rejects at once, the await
\* throws and the async function (nothing catches) rejects
DeleteFail(n) ==
    /\ n \in pendingDeletes
    /\ pendingDeletes' = pendingDeletes \ {n}
    /\ failedDeletes' = failedDeletes \cup {n}
    /\ activatePc' = IF activatePc = "deletes" THEN "rejected" ELSE activatePc
    /\ UNCHANGED <<location, preloadSupported, names, listing, store, installPc,
                   skipWaiting, logged, preloadEnabled, claimed, tasks, clock,
                   unhandled>>

\* Promise.all fulfils; navigationPreload.enable() is awaited when supported
ActivateDeleted ==
    /\ activatePc = "deletes"
    /\ pendingDeletes = {}
    /\ activatePc' = IF preloadSupported THEN "enable" ELSE "claim"
    /\ UNCHANGED <<location, preloadSupported, names, listing, store, installPc,
                   skipWaiting, logged, pendingDeletes, failedDeletes,
                   preloadEnabled, claimed, tasks, clock, unhandled>>

\* navigationPreload.enable() fulfils
ActivateEnableOk ==
    /\ activatePc = "enable"
    /\ preloadEnabled' = TRUE
    /\ activatePc' = "claim"
    /\ UNCHANGED <<location, preloadSupported, names, listing, store, installPc,
                   skipWaiting, logged, pendingDeletes, failedDeletes, claimed,
                   tasks, clock, unhandled>>

\* navigationPreload.enable() rejects: the async function rejects
ActivateEnableFail ==
    /\ activatePc = "enable"
    /\ activatePc' = "rejected"
    /\ UNCHANGED <<location, preloadSupported, names, listing, store, installPc,
                   skipWaiting, logged, pendingDeletes, failedDeletes,
                   preloadEnabled, claimed, tasks, clock, unhandled>>

\* self.clients.claim() fulfils and the async function returns
ActivateClaim ==
    /\ activatePc = "claim"
    /\ claimed' = TRUE
    /\ activatePc' = "done"
    /\ UNCHANGED <<location, preloadSupported, names, listing, store, installPc,
                   skipWaiting, logged, pendingDeletes, failedDeletes,
                   preloadEnabled, tasks, clock, unhandled>>

\* the promise given to event.waitUntil has settled: the worker is activated
\* and fetch events are dispatched to it
Activated == activatePc \in {"done", "rejected"}

(* ------------------------- fetch (sw.js:60-122) ----------------------- *)
NotIntercepted == [kind |-> "notintercepted"]
Idle == [kind |-> "idle"]
\* a promise object as an operand of || (sw.js:115)
PromiseObject == [kind |-> "promise"]

\* JavaScript truthiness of the values the handlers test
Truthy(v) == v.kind # "undefined"

\* url.origin of new URL(request.url)
Origin(request) == request.origin

\* the listener's branch for a request (sw.js:65, 70, 82, 102); the variant
\* tests the method before the mode
RouteMutant(request) ==
    IF Origin(request) # location THEN "none"
    ELSE IF includes(request.origin.hostname, BackendPattern) THEN "backend"
    ELSE IF request.method = "GET" THEN "asset"
    ELSE IF request.mode = "navigate" THEN "navigate"
    ELSE "none"

\* the backend test before the origin test
RouteBackendFirst(request) ==
    IF includes(request.origin.hostname, BackendPattern) THEN "backend"
    ELSE IF Origin(request) # location THEN "none"
    ELSE IF request.mode = "navigate" THEN "navigate"
    ELSE IF request.method = "GET" THEN "asset"
    ELSE "none"

\* the method test dropped from the last branch
RouteAnyMethod(request) ==
    IF Origin(request) # location THEN "none"
    ELSE IF includes(request.origin.hostname, BackendPattern) THEN "backend"
    ELSE IF request.mode = "navigate" THEN "navigate"
    ELSE "asset"

Route(request) ==
    IF Origin(request) # location THEN "none"
    ELSE IF includes(request.origin.hostname, BackendPattern) THEN "backend"
    ELSE IF request.mode = "navigate" THEN "navigate"
    ELSE IF request.method = "GET" THEN "asset"
    ELSE "none"

\* where the handler of each branch first suspends
FirstPc(strategy) ==
    CASE strategy = "backend" -> "b_fetch"
      [] strategy = "navigate" -> "n_preload"
      [] strategy = "asset" -> "a_open"
      [] OTHER -> "native"

NewTask(request) ==
    [request |-> request,
     strategy |-> Route(request),
     respondWith |-> IF Route(request) = "none" THEN 0 ELSE 1,
     pc |-> FirstPc(Route(request)),
     response |-> IF Route(request) = "none" THEN NotIntercepted ELSE Pending,
     preload |-> Idle,
     fetches |-> IF Route(request) = "backend" THEN 1 ELSE 0,
     net |-> IF Route(request) = "backend" THEN Pending ELSE Idle,
     cached |-> Idle,
     put |-> "none",
     putSnap |-> Undefined,
     native |-> IF Route(request) = "none" THEN Pending ELSE Idle,
     ops |-> {},
     netAt |-> 0,
     putAt |-> 0]

\* a fetch event reaches the listener; its synchronous part runs to the
\* first await of the branch taken
Dispatch(request, bound) ==
    /\ Activated
    /\ Len(tasks) < bound
    /\ tasks' = Append(tasks, NewTask(request))
    /\ UNCHANGED <<location, preloadSupported, names, listing, store, installPc,
                   skipWaiting, logged, activatePc, pendingDeletes, failedDeletes,
                   preloadEnabled, claimed, clock, unhandled>>

FetchEvent(request) == Dispatch(request, MaxRequests)

TaskIds == 1..Len(tasks)

\* the network answers a fetch: new content for a 200, none otherwise
Tick(o) == IF o[1] = 200 THEN clock + 1 ELSE clock

NetworkOk(i, o) ==
    NetResponse(tasks[i].request.pathname, o[1], o[2], IF o[1] = 200 THEN clock + 1 ELSE 0)

\* a request the listener left alone is fetched by the browser (sw.js:66, 121)
NativeOk(i, o) ==
    /\ tasks[i].pc = "native"
    /\ tasks' = [tasks EXCEPT ![i] = [@ EXCEPT !.pc = "done", !.native = NetworkOk(i, o)]]
    /\ clock' = Tick(o)
    /\ UNCHANGED <<location, preloadSupported, names, listing, store, installPc,
                   skipWaiting, logged, activatePc, pendingDeletes, failedDeletes,
                   preloadEnabled, claimed, unhandled>>

NativeFail(i) ==
    /\ tasks[i].pc = "native"
    /\ tasks' = [tasks EXCEPT ![i] = [@ EXCEPT !.pc = "done", !.native = NetworkError]]
    /\ UNCHANGED <<location, preloadSupported, names, listing, store, installPc,
                   skipWaiting, logged, activatePc, pendingDeletes, failedDeletes,
                   preloadEnabled, claimed, clock, unhandled>>

(* backend host: fetch(request).catch(() => new Response(...)) (sw.js:70-79) *)
\* variant: the backend branch stores the network response in Runtime
BackendOkMutant(i, o) ==
    /\ tasks[i].pc = "b_fetch"
    /\ tasks' = [tasks EXCEPT ![i] =
                    [@ EXCEPT !.pc = "done", !.net = NetworkOk(i, o),
                              !.response = NetworkOk(i, o)]]
    /\ store' = [store EXCEPT ![RUNTIME][tasks[i].request.pathname] = NetworkOk(i, o)]
    /\ clock' = Tick(o)
    /\ UNCHANGED <<location, preloadSupported, names, listing, installPc,
                   skipWaiting, logged, activatePc, pendingDeletes, failedDeletes,
                   preloadEnabled, claimed, unhandled>>

BackendOk(i, o) ==
    /\ tasks[i].pc = "b_fetch"
    /\ tasks' = [tasks EXCEPT ![i] =
                    [@ EXCEPT !.pc = "done", !.net = NetworkOk(i, o),
                              !.response = NetworkOk(i, o)]]
    /\ clock' = Tick(o)
    /\ UNCHANGED <<location, preloadSupported, names, listing, store, installPc,
                   skipWaiting, logged, activatePc, pendingDeletes, failedDeletes,
                   preloadEnabled, claimed, unhandled>>

BackendFail(i) ==
    /\ tasks[i].pc = "b_fetch"
    /\ tasks' = [tasks EXCEPT ![i] =
                    [@ EXCEPT !.pc = "done", !.net = Rejected, !.response = OfflineStub]]
    /\ UNCHANGED <<location, preloadSupported, names, listing, store, installPc,
                   skipWaiting, logged, activatePc, pendingDeletes, failedDeletes,
                   preloadEnabled, claimed, clock, unhandled>>

(* navigation: network first, then the cached shell (sw.js:82-99) *)
\* event.preloadResponse yields a response only when preload was enabled
\* and the navigation is a GET; otherwise it fulfils with undefined
PreloadActive(i) == preloadEnabled /\ tasks[i].request.method = "GET"

\* const preload = await event.preloadResponse; if (preload) return preload;
\* const fresh = await fetch(request, { cache: 'no-store' });
\* the variant fetches even when a preloaded response is there
AfterPreloadMutant(t, preload) ==
    [t EXCEPT !.pc = "n_fetch", !.preload = preload, !.net = Pending,
              !.fetches = @ + 1]

AfterPreload(t, preload) ==
    IF Truthy(preload)
    THEN [t EXCEPT !.pc = "done", !.preload = preload, !.response = preload]
    ELSE [t EXCEPT !.pc = "n_fetch", !.preload = preload, !.net = Pending,
                   !.fetches = @ + 1]

PreloadNone(i) ==
    /\ tasks[i].pc = "n_preload"
    /\ ~PreloadActive(i)
    /\ tasks' = [tasks EXCEPT ![i] = AfterPreload(@, Undefined)]
    /\ UNCHANGED <<location, preloadSupported, names, listing, store, installPc,
                   skipWaiting, logged, activatePc, pendingDeletes, failedDeletes,
                   preloadEnabled, claimed, clock, unhandled>>

PreloadOk(i, o) ==
    /\ tasks[i].pc = "n_preload"
    /\ PreloadActive(i)
    /\ tasks' = [tasks EXCEPT ![i] = AfterPreload(@, NetworkOk(i, o))]
    /\ clock' = Tick(o)
    /\ UNCHANGED <<location, preloadSupported, names, listing, store, installPc,
                   skipWaiting, logged, activatePc, pendingDeletes, failedDeletes,
                   preloadEnabled, claimed, unhandled>>

\* the preload rejects: the await throws into the catch block (sw.js:92)
PreloadFail(i) ==
    /\ tasks[i].pc = "n_preload"
    /\ PreloadActive(i)
    /\ tasks' = [tasks EXCEPT ![i] = [@ EXCEPT !.pc = "s_open", !.preload = Rejected]]
    /\ UNCHANGED <<location, preloadSupported, names, listing, store, installPc,
                   skipWaiting, logged, activatePc, pendingDeletes, failedDeletes,
                   preloadEnabled, claimed, clock, unhandled>>

NavFetchOk(i, o) ==
    /\ tasks[i].pc = "n_fetch"
    /\ tasks' = [tasks EXCEPT ![i] =
                    [@ EXCEPT !.pc = "done", !.net = NetworkOk(i, o),
                              !.response = NetworkOk(i, o)]]
    /\ clock' = Tick(o)
    /\ UNCHANGED <<location, preloadSupported, names, listing, store, installPc,
                   skipWaiting, logged, activatePc, pendingDeletes, failedDeletes,
                   preloadEnabled, claimed, unhandled>>

\* the fetch rejects: the await throws into the catch block (sw.js:92)
NavFetchFail(i) ==
    /\ tasks[i].pc = "n_fetch"
    /\ tasks' = [tasks EXCEPT ![i] = [@ EXCEPT !.pc = "s_open", !.net = Rejected]]
    /\ UNCHANGED <<location, preloadSupported, names, listing, store, installPc,
                   skipWaiting, logged, activatePc, pendingDeletes, failedDeletes,
                   preloadEnabled, claimed, clock, unhandled>>

(* cachedAppShell (sw.js:49-57) and its caller's || (sw.js:95) *)
\* cache.match(request): the entry stored under exactly this key
match(cache, key) == cache[key]

\* cache.match(key, { ignoreSearch: true }): the entry whose key has the
\* same pathname (the first stored one; no cache considered here holds two)
matchIgnoreSearch(cache, key) ==
    LET hits == {k \in AllPaths :
                    Truthy(cache[k]) /\ StripSearch(k) = StripSearch(key)}
    IN IF hits = {} THEN Undefined ELSE cache[CHOOSE k \in hits : TRUE]

\* shell || new Response('Offline', { status: 503 })
ShellOrOfflineMutant(shell) == shell

ShellOrOfflineAlways(shell) == OfflineResponse

ShellOrOffline(shell) == IF Truthy(shell) THEN shell ELSE OfflineResponse

\* const cache = await caches.open(PRECACHE)
ShellOpen(i) ==
    /\ tasks[i].pc = "s_open"
    /\ listing' = listing \cup {PRECACHE}
    /\ tasks' = [tasks EXCEPT ![i] =
                    [@ EXCEPT !.pc = "s_index", !.ops = @ \cup {<<"open", PRECACHE>>}]]
    /\ UNCHANGED <<location, preloadSupported, names, store, installPc, skipWaiting,
                   logged, activatePc, pendingDeletes, failedDeletes,
                   preloadEnabled, claimed, clock, unhandled>>

\* const match = await cache.match('/index.html', ...); if (match) return match;
AfterIndexMutant(t, m) ==
    [t EXCEPT !.pc = "s_root", !.ops = @ \cup {<<"match", PRECACHE>>}]

AfterIndex(t, m) ==
    IF Truthy(m)
    THEN [t EXCEPT !.pc = "done", !.response = ShellOrOffline(m),
                   !.ops = @ \cup {<<"match", PRECACHE>>}]
    ELSE [t EXCEPT !.pc = "s_root", !.ops = @ \cup {<<"match", PRECACHE>>}]

ShellIndex(i) ==
    /\ tasks[i].pc = "s_index"
    /\ tasks' = [tasks EXCEPT ![i] = AfterIndex(@, matchIgnoreSearch(store[PRECACHE], "/index.html"))]
    /\ UNCHANGED <<location, preloadSupported, names, listing, store, installPc,
                   skipWaiting, logged, activatePc, pendingDeletes, failedDeletes,
                   preloadEnabled, claimed, clock, unhandled>>

\* return cache.match('/', { ignoreSearch: true })
ShellRoot(i) ==
    /\ tasks[i].pc = "s_root"
    /\ tasks' = [tasks EXCEPT ![i] =
                    [@ EXCEPT !.pc = "done",
                              !.response =
                                  ShellOrOffline(matchIgnoreSearch(store[PRECACHE], "/")),
                              !.ops = @ \cup {<<"match", PRECACHE>>}]]
    /\ UNCHANGED <<location, preloadSupported, names, listing, store, installPc,
                   skipWaiting, logged, activatePc, pendingDeletes, failedDeletes,
                   preloadEnabled, claimed, clock, unhandled>>

(* same-origin GET: stale-while-revalidate (sw.js:102-118) *)
\* const cache = await caches.open(RUNTIME)
AssetOpen(i) ==
    /\ tasks[i].pc = "a_open"
    /\ listing' = listing \cup {RUNTIME}
    /\ tasks' = [tasks EXCEPT ![i] =
                    [@ EXCEPT !.pc = "a_match", !.ops = @ \cup {<<"open", RUNTIME>>}]]
    /\ UNCHANGED <<location, preloadSupported, names, store, installPc, skipWaiting,
                   logged, activatePc, pendingDeletes, failedDeletes,
                   preloadEnabled, claimed, clock, unhandled>>

\* cached || networkPromise || (await cachedAppShell()) || new Response(...):
\* the first truthy operand; networkPromise is a promise object
AssetReturnMutant(cached) == PromiseObject

AssetReturn(cached) ==
    IF Truthy(cached) THEN cached
    ELSE IF Truthy(PromiseObject) THEN PromiseObject
    ELSE Undefined

\* const cached = await cache.match(request); the fetch is started and the
\* async function returns (or goes on to cachedAppShell)
AssetMatch(i) ==
    /\ tasks[i].pc = "a_match"
    /\ LET cached == match(store[RUNTIME], tasks[i].request.pathname)
           r == AssetReturn(cached)
       IN tasks' = [tasks EXCEPT ![i] =
                [@ EXCEPT !.cached = cached,
                          !.ops = @ \cup {<<"match", RUNTIME>>},
                          !.net = Pending,
                          !.fetches = @ + 1,
                          !.response = IF IsResponse(r) THEN r ELSE Pending,
                          !.pc = IF r.kind = "undefined" THEN "s_open"
                                 ELSE IF r.kind = "promise" THEN "a_adopt"
                                 ELSE "done"]]
    /\ UNCHANGED <<location, preloadSupported, names, listing, store, installPc,
                   skipWaiting, logged, activatePc, pendingDeletes, failedDeletes,
                   preloadEnabled, claimed, clock, unhandled>>

\* if (response && response.status === 200 && response.type === 'basic')
CacheableMutant(response) == Truthy(response)

Cacheable(response) ==
    Truthy(response) /\ response.status = 200 /\ response.type = "basic"

AssetNetPending(i) == tasks[i].strategy = "asset" /\ tasks[i].net = Pending

\* variant: the .then callback returns the put's promise, so that the
\* returned networkPromise waits for the write
AssetNetOkMutant(i, o) ==
    /\ AssetNetPending(i)
    /\ LET response == NetworkOk(i, o)
       IN tasks' = [tasks EXCEPT ![i] =
                [@ EXCEPT !.net = response,
                          !.netAt = Len(tasks),
                          !.put = IF Cacheable(response) THEN "pending" ELSE @,
                          !.putSnap = IF Cacheable(response) THEN response ELSE @,
                          !.ops = IF Cacheable(response)
                                  THEN @ \cup {<<"put", RUNTIME>>} ELSE @,
                          !.response = IF tasks[i].pc = "a_adopt" /\ ~Cacheable(response)
                                       THEN response ELSE @,
                          !.pc = IF @ = "a_adopt" /\ ~Cacheable(response)
                                 THEN "done" ELSE @]]
    /\ clock' = Tick(o)
    /\ UNCHANGED <<location, preloadSupported, names, listing, store, installPc,
                   skipWaiting, logged, activatePc, pendingDeletes, failedDeletes,
                   preloadEnabled, claimed, unhandled>>

\* the fetch fulfils: .then starts cache.put (not awaited) for a cacheable
\* response and passes the response on; a returned networkPromise settles
AssetNetOk(i, o) ==
    /\ AssetNetPending(i)
    /\ LET response == NetworkOk(i, o)
       IN tasks' = [tasks EXCEPT ![i] =
                [@ EXCEPT !.net = response,
                          !.netAt = Len(tasks),
                          !.put = IF Cacheable(response) THEN "pending" ELSE @,
                          !.putSnap = IF Cacheable(response) THEN response ELSE @,
                          !.ops = IF Cacheable(response)
                                  THEN @ \cup {<<"put", RUNTIME>>} ELSE @,
                          !.response = IF tasks[i].pc = "a_adopt" THEN response ELSE @,
                          !.pc = IF @ = "a_adopt" THEN "done" ELSE @]]
    /\ clock' = Tick(o)
    /\ UNCHANGED <<location, preloadSupported, names, listing, store, installPc,
                   skipWaiting, logged, activatePc, pendingDeletes, failedDeletes,
                   preloadEnabled, claimed, unhandled>>

\* the fetch rejects: .catch(() => undefined)
AssetNetFail(i) ==
    /\ AssetNetPending(i)
    /\ tasks' = [tasks EXCEPT ![i] =
                [@ EXCEPT !.net = Rejected,
                          !.response = IF tasks[i].pc = "a_adopt" THEN Undefined ELSE @,
                          !.pc = IF @ = "a_adopt" THEN "done" ELSE @]]
    /\ UNCHANGED <<location, preloadSupported, names, listing, store, installPc,
                   skipWaiting, logged, activatePc, pendingDeletes, failedDeletes,
                   preloadEnabled, claimed, clock, unhandled>>

\* cache.put(request, response.clone()) fulfils: last write wins
PutOkMutant(i) ==
    /\ tasks[i].put = "pending"
    /\ tasks' = [tasks EXCEPT ![i] = [@ EXCEPT !.put = "done", !.putAt = Len(tasks)]]
    /\ UNCHANGED <<location, preloadSupported, names, listing, store, installPc,
                   skipWaiting, logged, activatePc, pendingDeletes, failedDeletes,
                   preloadEnabled, claimed, clock, unhandled>>

PutOk(i) ==
    /\ tasks[i].put = "pending"
    /\ store' = [store EXCEPT ![RUNTIME][tasks[i].request.pathname] = tasks[i].putSnap]
    /\ tasks' = [tasks EXCEPT ![i] = [@ EXCEPT !.put = "done", !.putAt = Len(tasks)]]
    /\ UNCHANGED <<location, preloadSupported, names, listing, installPc, skipWaiting,
                   logged, activatePc, pendingDeletes, failedDeletes,
                   preloadEnabled, claimed, clock, unhandled>>

\* cache.put rejects (quota exceeded): nothing handles the rejection
PutFail(i) ==
    /\ tasks[i].put = "pending"
    /\ tasks' = [tasks EXCEPT ![i] = [@ EXCEPT !.put = "failed"]]
    /\ unhandled' = unhandled + 1
    /\ UNCHANGED <<location, preloadSupported, names, listing, store, installPc,
                   skipWaiting, logged, activatePc, pendingDeletes, failedDeletes,
                   preloadEnabled, claimed, clock>>

(* --------------------------- specification ---------------------------- *)
Next ==
    \/ InstallEvent
    \/ InstallOpen
    \/ InstallAddAllOk
    \/ InstallAddAllFail
    \/ ActivateEvent
    \/ ActivateKeys
    \/ \E n \in CacheNames : DeleteOk(n)
    \/ \E n \in CacheNames : DeleteFail(n)
    \/ ActivateDeleted
    \/ ActivateEnableOk
    \/ ActivateEnableFail
    \/ ActivateClaim
    \/ \E request \in Requests : FetchEvent(request)
    \/ \E i \in TaskIds, o \in NetOutcomes : NativeOk(i, o)
    \/ \E i \in TaskIds : NativeFail(i)
    \/ \E i \in TaskIds, o \in NetOutcomes : BackendOk(i, o)
    \/ \E i \in TaskIds : BackendFail(i)
    \/ \E i \in TaskIds : PreloadNone(i)
    \/ \E i \in TaskIds, o \in NetOutcomes : PreloadOk(i, o)
    \/ \E i \in TaskIds : PreloadFail(i)
    \/ \E i \in TaskIds, o \in NetOutcomes : NavFetchOk(i, o)
    \/ \E i \in TaskIds : NavFetchFail(i)
    \/ \E i \in TaskIds : ShellOpen(i)
    \/ \E i \in TaskIds : ShellIndex(i)
    \/ \E i \in TaskIds : ShellRoot(i)
    \/ \E i \in TaskIds : AssetOpen(i)
    \/ \E i \in TaskIds : AssetMatch(i)
    \/ \E i \in TaskIds, o \in NetOutcomes : AssetNetOk(i, o)
    \/ \E i \in TaskIds : AssetNetFail(i)
    \/ \E i \in TaskIds : PutOk(i)
    \/ \E i \in TaskIds : PutFail(i)

Spec == Init /\ [][Next]_vars

(* A fresh deployment at the application's origin on a platform without    *)
(* navigation preload, with several fetch events in flight at once.        *)
SameOriginRequests == {r \in Requests : r.origin = OriginApp}

InitConcurrent ==
    /\ Init
    /\ location = OriginApp
    /\ preloadSupported = FALSE
    /\ listing = {}

FetchEventConcurrent(request) == Dispatch(request, MaxConcurrent)

NextConcurrent ==
    \/ InstallEvent
    \/ InstallOpen
    \/ InstallAddAllOk
    \/ InstallAddAllFail
    \/ ActivateEvent
    \/ ActivateKeys
    \/ ActivateDeleted
    \/ ActivateClaim
    \/ \E request \in SameOriginRequests : FetchEventConcurrent(request)
    \/ \E i \in TaskIds, o \in NetOutcomes : NativeOk(i, o)
    \/ \E i \in TaskIds : NativeFail(i)
    \/ \E i \in TaskIds : PreloadNone(i)
    \/ \E i \in TaskIds, o \in NetOutcomes : NavFetchOk(i, o)
    \/ \E i \in TaskIds : NavFetchFail(i)
    \/ \E i \in TaskIds : ShellOpen(i)
    \/ \E i \in TaskIds : ShellIndex(i)
    \/ \E i \in TaskIds : ShellRoot(i)
    \/ \E i \in TaskIds : AssetOpen(i)
    \/ \E i \in TaskIds : AssetMatch(i)
    \/ \E i \in TaskIds, o \in NetOutcomes : AssetNetOk(i, o)
    \/ \E i \in TaskIds : AssetNetFail(i)
    \/ \E i \in TaskIds : PutOk(i)
    \/ \E i \in TaskIds : PutFail(i)

SpecConcurrent == InitConcurrent /\ [][NextConcurrent]_vars

(* The App-Shell Resolver on every content of Precache: an activated       *)
(* worker at the application's origin whose Precache holds any choice of   *)
(* shell entries, stored with or without a query string, and whose Runtime *)
(* may hold entries under the same pathnames; navigations only.            *)
NavigateRequests ==
    {r \in Requests : r.origin = OriginApp /\ r.mode = "navigate"}

\* a cache holding snapshots under exactly the keys `ks`
CacheHolding(ks, body) ==
    [p \in AllPaths |->
        IF p \in ks THEN NetResponse(p, 200, "basic", body) ELSE Undefined]

IndexKeys == {"/index.html", "/index.html?v=2"}
RootKeys == {"/", "/?source=pwa"}

\* at most one key per pathname
ShellContents ==
    {ik \cup rk : ik \in {{}} \cup {{k} : k \in IndexKeys},
                  rk \in {{}} \cup {{k} : k \in RootKeys}}

InitShell ==
    /\ location = OriginApp
    /\ preloadSupported = FALSE
    /\ listing = {PRECACHE, RUNTIME}
    /\ \E ks \in ShellContents, rs \in {{}, {"/index.html", "/"}} :
           store = [n \in CacheNames |->
                       IF n = PRECACHE THEN CacheHolding(ks, 1)
                       ELSE IF n = RUNTIME THEN CacheHolding(rs, 2)
                       ELSE EmptyCache]
    /\ installPc = "done"
    /\ skipWaiting \in BOOLEAN
    /\ logged = ~skipWaiting
    /\ activatePc = "done"
    /\ names = {PRECACHE}
    /\ pendingDeletes = {}
    /\ failedDeletes = {}
    /\ preloadEnabled = FALSE
    /\ claimed = TRUE
    /\ tasks = <<>>
    /\ clock = 2
    /\ unhandled = 0

FetchEventShell(request) == Dispatch(request, MaxRequests)

NextShell ==
    \/ \E request \in NavigateRequests : FetchEventShell(request)
    \/ \E i \in TaskIds : PreloadNone(i)
    \/ \E i \in TaskIds, o \in NetOutcomes : NavFetchOk(i, o)
    \/ \E i \in TaskIds : NavFetchFail(i)
    \/ \E i \in TaskIds : ShellOpen(i)
    \/ \E i \in TaskIds : ShellIndex(i)
    \/ \E i \in TaskIds : ShellRoot(i)

SpecShell == InitShell /\ [][NextShell]_vars

(* ------------------------------- claims ------------------------------- *)
\* what the page that issued the request receives: the browser's own fetch
\* for a request left alone, the value respondWith settled with otherwise
\* (anything but a Response makes the browser report a network error)
Delivered(t) ==
    IF t.strategy = "none" THEN t.native
    ELSE IF t.response = Pending THEN Pending
    ELSE IF IsResponse(t.response) THEN t.response
    ELSE NetworkError

CrossOrigin(t) == t.request.origin # location
ToBackend(t) == includes(t.request.origin.hostname, BackendPattern)
Untouched(t) ==
    /\ t.respondWith = 0
    /\ t.response = NotIntercepted
    /\ t.ops = {}
    /\ t.fetches = 0
    /\ t.strategy = "none"

\* C1: a fetch event whose request origin differs from the worker's origin is
\* left alone: respondWith is never called, this layer synthesizes no
\* response and reads or writes no partition, whatever the hostname, mode or
\* method.
C1_CrossOriginBypass ==
    \A i \in TaskIds : CrossOrigin(tasks[i]) => Untouched(tasks[i])

\* a cross-origin navigation to the backend host has been answered natively
C1_Witness ==
    \E i \in TaskIds :
        /\ CrossOrigin(tasks[i])
        /\ ToBackend(tasks[i])
        /\ tasks[i].request.mode = "navigate"
        /\ tasks[i].request.method = "GET"
        /\ tasks[i].pc = "done"
        /\ IsResponse(tasks[i].native)

\* a JSON body with field `error` and the JSON content type
IsOfflineJson(r) ==
    /\ IsResponse(r)
    /\ r.body = <<"text", "{\"error\":\"" \o OfflineMessage \o "\"}">>
    /\ <<"Content-Type", "application/json">> \in r.headers

NetworkFailed(t) == t.net = Rejected \/ t.native = NetworkError
NetworkAnswered(t) == IsResponse(t.net) \/ IsResponse(t.native)

C3_Original ==
    \A i \in TaskIds :
        (/\ tasks[i].request.method # "GET"
         /\ ~CrossOrigin(tasks[i])
         /\ ~ToBackend(tasks[i])) => Untouched(tasks[i])

\* C3: a non-GET, same-origin, non-backend request whose mode is not
\* 'navigate' is left alone: no strategy runs, respondWith is not called and
\* no partition is read or written.
C3_NonGetNonNavigate ==
    \A i \in TaskIds :
        (/\ tasks[i].request.method # "GET"
         /\ tasks[i].request.mode # "navigate"
         /\ ~CrossOrigin(tasks[i])
         /\ ~ToBackend(tasks[i])) => Untouched(tasks[i])

\* a same-origin DELETE that is no navigation has been answered natively
C3_Witness ==
    \E i \in TaskIds :
        /\ tasks[i].request.method = "DELETE"
        /\ tasks[i].request.mode = "cors"
        /\ ~CrossOrigin(tasks[i])
        /\ ~ToBackend(tasks[i])
        /\ tasks[i].pc = "done"
        /\ tasks[i].native # Pending

\* the navigation's network attempt failed: the preload or the fetch rejected
NavigationOffline(t) ==
    /\ t.strategy = "navigate"
    /\ t.pc = "done"
    /\ (t.preload = Rejected \/ t.net = Rejected)

ShellIndexEntry == store[PRECACHE]["/index.html"]
ShellRootEntry == store[PRECACHE]["/"]
ShellCached == Truthy(ShellIndexEntry) \/ Truthy(ShellRootEntry)

\* C4: a same-origin navigation whose network attempt (preload and fetch)
\* failed while Precache holds neither '/index.html' nor '/' is answered with
\* status 503 and body "Offline".
C4_NavigationOffline503 ==
    \A i \in TaskIds :
        (NavigationOffline(tasks[i]) /\ ~ShellCached) =>
            /\ IsResponse(tasks[i].response)
            /\ tasks[i].response.status = 503
            /\ tasks[i].response.body = <<"text", "Offline">>

\* an offline navigation was answered while Precache holds no shell
C4_Witness ==
    \E i \in TaskIds :
        /\ NavigationOffline(tasks[i])
        /\ ~ShellCached
        /\ <<"match", PRECACHE>> \in tasks[i].ops
        /\ Delivered(tasks[i]) = OfflineResponse

\* C5: a same-origin navigation whose network attempt failed while a shell is
\* cached in Precache is answered with that cached snapshot, never with the
\* 503 stub nor with an error.
C5_NavigationOfflineShell ==
    \A i \in TaskIds :
        (NavigationOffline(tasks[i]) /\ ShellCached) =>
            /\ IsResponse(Delivered(tasks[i]))
            /\ Delivered(tasks[i]) \in {ShellIndexEntry, ShellRootEntry}
            /\ Delivered(tasks[i]) # OfflineResponse

\* an offline navigation was answered with the snapshot of '/index.html'
C5_Witness ==
    \E i \in TaskIds :
        /\ NavigationOffline(tasks[i])
        /\ tasks[i].preload = Rejected
        /\ Truthy(ShellIndexEntry)
        /\ tasks[i].response = ShellIndexEntry

AssetLookedUp(t) == t.strategy = "asset" /\ t.cached # Idle

\* C6: an asset GET whose key is in Runtime when it is looked up is answered
\* with that snapshot at the lookup itself, while the revalidating fetch is
\* still pending, and the answer does not change when the fetch settles.
C6_StaleWhileRevalidate ==
    [][\A i \in TaskIds :
          /\ (/\ tasks[i].pc = "a_match"
              /\ tasks'[i].pc # "a_match"
              /\ Truthy(store[RUNTIME][tasks[i].request.pathname])) =>
                 /\ tasks'[i].response = store[RUNTIME][tasks[i].request.pathname]
                 /\ tasks'[i].net = Pending
          /\ (tasks[i].strategy = "asset" /\ IsResponse(tasks[i].response)) =>
                 tasks'[i].response = tasks[i].response]_vars

\* a cached asset has been delivered and its revalidation is still pending
C6_Witness ==
    \E i \in TaskIds :
        /\ tasks[i].strategy = "asset"
        /\ IsResponse(tasks[i].cached)
        /\ tasks[i].response = tasks[i].cached
        /\ tasks[i].net = Pending

C8_AssetOfflineFallback ==
    \A i \in TaskIds :
        (/\ tasks[i].strategy = "asset"
         /\ tasks[i].cached = Undefined
         /\ tasks[i].net = Rejected) =>
            Delivered(tasks[i]) =
                (IF Truthy(ShellIndexEntry) THEN ShellIndexEntry
                 ELSE IF Truthy(ShellRootEntry) THEN ShellRootEntry
                 ELSE OfflineResponse)

\* C9 as stated: once the activate handler has completed, the listing is
\* exactly {Precache, Runtime} of the new version.
C9_Original == activatePc = "done" => listing = {PRECACHE, RUNTIME}

\* C9: once the activate handler has completed (its promise fulfilled), the
\* listing holds no partition of an old version and nothing but the new
\* version's Precache and Runtime, of which Runtime is there only once
\* something opened it; if the handler rejected, the only other partitions
\* listed are those whose delete rejected or is still pending.
C9_NoStaleAfterActivate ==
    /\ activatePc = "done" =>
           /\ listing \subseteq {PRECACHE, RUNTIME}
           /\ listing \cap StaleNames = {}
    /\ Activated => listing \subseteq {PRECACHE, RUNTIME} \cup failedDeletes \cup pendingDeletes

\* activation completed after deleting both partitions of the old version
C9_Witness ==
    /\ activatePc = "done"
    /\ StaleNames \subseteq names
    /\ listing \cap StaleNames = {}
    /\ RUNTIME \notin listing

\* the routing rules of the router, in priority order
RouterRules(request) ==
    << <<request.origin # location, "none">>,
       <<includes(request.origin.hostname, BackendPattern), "backend">>,
       <<request.mode = "navigate", "navigate">>,
       <<request.method = "GET", "asset">>,
       <<TRUE, "none">> >>

FirstMatch(request) ==
    LET rules == RouterRules(request)
        k == CHOOSE k \in 1..Len(rules) :
                 rules[k][1] /\ \A j \in 1..(k - 1) : ~rules[j][1]
    IN rules[k][2]

\* the strategy whose handler a task is executing
Running(t) ==
    CASE t.pc = "native" -> "none"
      [] t.pc = "b_fetch" -> "backend"
      [] t.pc \in {"n_preload", "n_fetch"} -> "navigate"
      [] t.pc \in {"a_open", "a_match", "a_adopt"} -> "asset"
      [] OTHER -> t.strategy

\* C10: the strategy that runs for a request is the one the first matching
\* rule selects (cross-origin > backend host > navigate > GET > none);
\* dispatching changes no partition and no other task, and respondWith is
\* called once for an intercepted request, never otherwise and never again.
C10_FirstMatchWins ==
    /\ [](\A i \in TaskIds :
            /\ tasks[i].strategy = FirstMatch(tasks[i].request)
            /\ Running(tasks[i]) = tasks[i].strategy
            /\ tasks[i].respondWith = (IF tasks[i].strategy = "none" THEN 0 ELSE 1))
    /\ [][/\ Len(tasks') > Len(tasks) =>
                 /\ listing' = listing
                 /\ store' = store
                 /\ SubSeq(tasks', 1, Len(tasks)) = tasks
          /\ \A i \in TaskIds :
                 /\ tasks'[i].strategy = tasks[i].strategy
                 /\ tasks'[i].respondWith = tasks[i].respondWith]_vars

\* a same-origin GET navigation, which the GET rule matches as well, has
\* been answered by the navigation strategy
C10_Witness ==
    \E i \in TaskIds :
        /\ tasks[i].request.mode = "navigate"
        /\ tasks[i].request.method = "GET"
        /\ tasks[i].strategy = "navigate"
        /\ tasks[i].pc = "done"
        /\ tasks[i].respondWith = 1

\* C11: no failure inside this layer surfaces as an unhandled rejection or
\* as a rejected handler promise: the activate handler's promise never
\* rejects, no respondWith promise rejects and no rejection goes unhandled.
C11_NoFailureSurfaces ==
    /\ unhandled = 0
    /\ activatePc # "rejected"
    /\ \A i \in TaskIds : tasks[i].response # Rejected

\* what "safe to cache" means: successful and same-origin, non-opaque
SafeToCache(r) == IsResponse(r) /\ r.status = 200 /\ r.type = "basic"

Finished(t) == t.response # Pending

\* C13: the task of an asset GET is not finished while its revalidating
\* fetch or its cache put is still pending.
C13_KeptAliveUntilWriteSettles ==
    \A i \in TaskIds :
        (tasks[i].strategy = "asset" /\ Finished(tasks[i])) =>
            /\ tasks[i].net # Pending
            /\ tasks[i].put # "pending"

\* C14: a rejected delete of one stale partition is not propagated out of
\* the activate handler, and navigation-preload enable and claim still run.
C14_EvictionFailureContained ==
    failedDeletes # {} =>
        /\ activatePc # "rejected"
        /\ (pendingDeletes = {} /\ activatePc = "done") => claimed

InstallSettled == installPc \notin {"idle", "open", "addAll"}

\* C15: when an app-shell resource is unreachable during install, the
\* failure is caught and logged, the install handler's promise fulfils, the
\* activate event can still be dispatched, and Precache holds a subset of
\* the app-shell snapshots (possibly none).
C15_BootstrapFailureContained ==
    (InstallSettled /\ ~skipWaiting) =>
        /\ logged
        /\ installPc = "done"
        /\ activatePc = "idle" => ENABLED ActivateEvent
        /\ PRECACHE \in listing
        /\ \A p \in AllPaths :
               Truthy(store[PRECACHE][p]) =>
                   p \in PRECACHE_URLS /\ SafeToCache(store[PRECACHE][p])

\* the worker was activated after a failed precache, Precache holding nothing
C15_Witness ==
    /\ logged
    /\ ~skipWaiting
    /\ activatePc = "done"
    /\ \A p \in AllPaths : store[PRECACHE][p] = Undefined

\* C16: navigation is network-first: a preloaded response is returned
\* without any fetch; otherwise exactly one fetch is issued and its response
\* returned; Precache is consulted only after the preload or the fetch
\* rejected, so no cached shell is returned while the network answers.
C16_NavigationNetworkFirst ==
    \A i \in TaskIds :
        tasks[i].strategy = "navigate" =>
            /\ tasks[i].fetches <= 1
            /\ IsResponse(tasks[i].preload) =>
                   /\ tasks[i].response = tasks[i].preload
                   /\ tasks[i].fetches = 0
                   /\ tasks[i].ops = {}
            /\ tasks[i].preload = Undefined => tasks[i].fetches = 1
            /\ tasks[i].preload = Rejected => tasks[i].fetches = 0
            /\ IsResponse(tasks[i].net) =>
                   /\ tasks[i].response = tasks[i].net
                   /\ tasks[i].ops = {}
            /\ tasks[i].ops # {} =>
                   (tasks[i].preload = Rejected \/ tasks[i].net = Rejected)

\* a preloaded response was returned, without a fetch, while a shell is cached
C16_Witness ==
    \E i \in TaskIds :
        /\ tasks[i].strategy = "navigate"
        /\ IsResponse(tasks[i].preload)
        /\ tasks[i].response = tasks[i].preload
        /\ tasks[i].fetches = 0
        /\ ShellCached

\* the Precache entries stored under a pathname, whatever their query string
PrecacheEntries(pathname) ==
    {store[PRECACHE][k] : k \in {k \in AllPaths :
        Truthy(store[PRECACHE][k]) /\ StripSearch(k) = pathname}}

\* the resolver has run to its end for a task
Resolved(t) == t.pc = "done" /\ <<"match", PRECACHE>> \in t.ops

\* C17: the App-Shell Resolver yields the Precache entry for '/index.html'
\* (query string ignored) when there is one, else the Precache entry for '/'
\* (query string ignored), else nothing (its caller then answers 503); it
\* consults no partition but Precache and changes no partition.
C17_ShellResolver ==
    /\ [](\A i \in TaskIds :
            /\ Resolved(tasks[i]) =>
                   IF PrecacheEntries("/index.html") # {}
                   THEN tasks[i].response \in PrecacheEntries("/index.html")
                   ELSE IF PrecacheEntries("/") # {}
                   THEN tasks[i].response \in PrecacheEntries("/")
                   ELSE tasks[i].response = OfflineResponse
            /\ tasks[i].ops \subseteq {<<"open", PRECACHE>>, <<"match", PRECACHE>>})
    /\ [][store' = store /\ listing' = listing]_vars

\* the resolver fell back to the entry for '/', stored with a query string,
\* while Runtime holds an entry for '/index.html'
C17_Witness ==
    \E i \in TaskIds :
        /\ Resolved(tasks[i])
        /\ PrecacheEntries("/index.html") = {}
        /\ Truthy(store[RUNTIME]["/index.html"])
        /\ tasks[i].response = store[PRECACHE]["/?source=pwa"]
        /\ IsResponse(tasks[i].response)

\* C18: an asset GET with no Runtime match whose fetch succeeded has the
\* network response as its answer from the moment the fetch fulfils, in
\* every state of the Runtime write: pending, failed, completed or not
\* started.
C18_ResponseNotBlockedByWrite ==
    \A i \in TaskIds :
        (/\ tasks[i].strategy = "asset"
         /\ AssetLookedUp(tasks[i])
         /\ tasks[i].cached = Undefined
         /\ IsResponse(tasks[i].net))
        => /\ tasks[i].response = tasks[i].net
           /\ tasks[i].pc = "done"

\* the write failed and the network response was delivered all the same
C18_Witness ==
    \E i \in TaskIds :
        /\ tasks[i].strategy = "asset"
        /\ tasks[i].cached = Undefined
        /\ IsResponse(tasks[i].net)
        /\ tasks[i].put = "failed"
        /\ tasks[i].response = tasks[i].net

\* C19: the upgrade is a barrier: whenever control has been claimed or a
\* fetch event has been routed by this version, every deletion started by
\* the activate handler has settled and no stale-version partition exists.
C19_UpgradeBarrier ==
    (claimed \/ tasks # <<>>)
    => /\ pendingDeletes = {}
       /\ listing \cap StaleNames = {}

\* the cache operations a task has issued that write
Writes(t) == {op \in t.ops : op[1] = "put"}

\* the step is the completion of task i's put into Runtime
RuntimePutBy(i) ==
    /\ tasks[i].strategy = "asset"
    /\ tasks[i].put = "pending"
    /\ tasks'[i].put = "done"
    /\ store' = [store EXCEPT
                    ![RUNTIME][tasks[i].request.pathname] = tasks[i].putSnap]

\* C20: fetch handling changes cache contents only through the asset
\* strategy's put into Runtime: a backend task issues no cache operation at
\* all, a navigation or passed-through task issues no write, a step of fetch
\* handling that changes a partition is an asset task's put into Runtime, and
\* Precache changes only in the install handler's addAll.
C20_FetchFrame ==
    /\ [](\A i \in TaskIds :
            /\ tasks[i].strategy = "backend" =>
                   tasks[i].ops = {} /\ tasks[i].put = "none"
            /\ tasks[i].strategy \in {"navigate", "none"} =>
                   Writes(tasks[i]) = {} /\ tasks[i].put = "none"
            /\ Writes(tasks[i]) \subseteq {<<"put", RUNTIME>>})
    /\ [][/\ (tasks' # tasks /\ store' # store) =>
                 \E i \in TaskIds : RuntimePutBy(i)
          /\ tasks' # tasks => store'[PRECACHE] = store[PRECACHE]
          /\ store'[PRECACHE] # store[PRECACHE] =>
                 installPc = "addAll" /\ installPc' = "done"]_vars

\* a backend request was answered from the network, a Precache filled by
\* install is in place, and Runtime holds nothing
C20_Witness ==
    \E i \in TaskIds :
        /\ tasks[i].strategy = "backend"
        /\ tasks[i].pc = "done"
        /\ IsResponse(tasks[i].net)
        /\ tasks[i].response = tasks[i].net
        /\ tasks[i].ops = {}
        /\ \A p \in PRECACHE_URLS : IsResponse(store[PRECACHE][p])
        /\ \A p \in AllPaths : store[RUNTIME][p] = Undefined

====
